---------------------------- MODULE Spec2Model ----------------------------
(***************************************************************************)
(* A model of src/cli/repack.py: the backward magic-pattern scan, the      *)
(* outer archive (CArchive/PKG) rebuild, the in-place patch of the host    *)
(* executable and the Repacker that drives them.                           *)
(*                                                                         *)
(* Files are sequences of bytes (0..255).  Offsets keep Python's 0-based   *)
(* meaning; Slice(s, a, b) is Python's s[a:b].                             *)
(***************************************************************************)
EXTENDS Integers, Sequences, FiniteSets, TLC

VARIABLES
    \* ---- CArchiveReader2.find_magic_pattern, run step by step
    stream,         \* fp: the bytes of the stream that is scanned
    magic_pattern,  \* the pattern that is looked for
    end_pos,        \* local end_pos
    magic_offset,   \* local magic_offset
    scan_pc,        \* "start" | "loop" | "done"
    \* ---- the files of a repack run
    executable,     \* the bytes of the host executable
    exe0,           \* the bytes it had when the run started (never written)
    disk,           \* the replacement tree and the build directory: path -> bytes
    pkgfile,        \* buildpath/PKG-patched: None, or Some(bytes)
    copied,         \* whether the runtime library was copied next to the executable
    \* ---- the environment
    platform,       \* "darwin" | "linux" | "win" | "other" (is_darwin, is_linux, is_win)
    hooks,          \* the optional hooks the installed PyInstaller has (hasattr)
    rtfiles,        \* os.listdir(rtpath)
    \* ---- the Repacker and the run
    pyz_tocs,       \* self.contents / self.pyz_tocs: <<name, inner TOC>> per PYZ
    one_file_mode,  \* self.one_file_mode
    rtentry,        \* local rtentry of repack: None or Some(entry)
    pc,             \* the step the run is at, "done" or "failed"
    err,            \* the error that ended the run, "" when none
    started,        \* the steps of the run that have begun
    built,          \* what the outer writer did (see CArchiveWriterLocal)
    offset,         \* local offset of repack_executable, -1 before it is set
    \* ---- extract_pyzarchive
    pyzname,        \* argument name: the name of the inner archive
    pyzarch,        \* argument pyzarch: its members [name, typecode, data], in TOC order
    member,         \* the position of the loop in pyzarch.toc, 0 before the call
    written         \* the writes of the loop so far: [member, path, bytes]

scanVars == <<stream, magic_pattern, end_pos, magic_offset, scan_pc>>

fileVars == <<executable, exe0, disk, pkgfile, copied>>

envVars == <<platform, hooks, rtfiles>>

runVars == <<pyz_tocs, one_file_mode, rtentry, pc, err, started, built, offset>>

extractVars == <<pyzname, pyzarch, member, written>>

vars == <<scanVars, fileVars, envVars, runVars, extractVars>>

-----------------------------------------------------------------------------
(* Bounds of the model.                                                    *)

\* Longest stream handed to the step-by-step scan.
MaxStreamLen == 9

\* Most entries in the TOC of an original archive of the outer rebuild.
MaxEntries == 2

\* Longest pattern drawn over the scan alphabet (besides the two patterns
\* that are exactly one chunk long).
MaxPatLen == 3

\* The scan chunk.  The source reads 8192 bytes at a time (repack.py:84);
\* the model keeps the algorithm and scales the chunk down to the length of
\* the cookie magic, the smallest chunk in which the magic can be found.
SEARCH_CHUNK_SIZE == 8

-----------------------------------------------------------------------------
(* Bytes and sequences.                                                    *)

Max(a, b) == IF a >= b THEN a ELSE b

Min(a, b) == IF a <= b THEN a ELSE b

\* Python's s[a:b] for 0 <= a, b.
Slice(s, a, b) == SubSeq(s, a + 1, Min(b, Len(s)))

\* str.startswith and str.endswith.
StartsWith(s, t) == Len(s) >= Len(t) /\ SubSeq(s, 1, Len(t)) = t

EndsWith(s, t) == Len(s) >= Len(t) /\ SubSeq(s, Len(s) - Len(t) + 1, Len(s)) = t

\* n zero bytes.
Zeros(n) == [i \in 1..n |-> 0]

\* All sequences over S of a length in lo..hi.
SeqsOf(S, lo, hi) == UNION {[1..n -> S] : n \in lo..hi}

\* bytes.rfind(pat): the highest 0-based index at which pat occurs in buf,
\* -1 when it occurs nowhere.
RFind(buf, pat) ==
    LET hits == {i \in 0..(Len(buf) - Len(pat)) : Slice(buf, i, i + Len(pat)) = pat}
    IN  IF hits = {} THEN -1 ELSE CHOOSE i \in hits : \A j \in hits : j <= i

-----------------------------------------------------------------------------
(* The archive format (repack.py:51-76, 416-425).                          *)

\* Type codes for CArchive TOC entries (lines 31-40).
PKG_ITEM_BINARY == "b"

PKG_ITEM_DEPENDENCY == "d"

PKG_ITEM_PYZ == "z"

PKG_ITEM_ZIPFILE == "Z"

PKG_ITEM_PYPACKAGE == "M"

PKG_ITEM_PYMODULE == "m"

PKG_ITEM_PYSOURCE == "s"

PKG_ITEM_DATA == "x"

PKG_ITEM_RUNTIME_OPTION == "o"

PKG_ITEM_SPLASH == "l"

KnownTypeCodes ==
    {PKG_ITEM_BINARY, PKG_ITEM_DEPENDENCY, PKG_ITEM_PYZ, PKG_ITEM_ZIPFILE,
     PKG_ITEM_PYPACKAGE, PKG_ITEM_PYMODULE, PKG_ITEM_PYSOURCE, PKG_ITEM_DATA,
     PKG_ITEM_RUNTIME_OPTION, PKG_ITEM_SPLASH}

\* A type code no list of the source knows.
UnknownTypeCode == "q"

\* ord(typecode) (line 574).
Ord(tc) ==
    CASE tc = "b" -> 98  [] tc = "d" -> 100 [] tc = "z" -> 122 [] tc = "Z" -> 90
      [] tc = "M" -> 77  [] tc = "m" -> 109 [] tc = "s" -> 115 [] tc = "x" -> 120
      [] tc = "o" -> 111 [] tc = "l" -> 108 [] tc = "q" -> 113

\* The reader's way back from the stored byte to the type code.
Chr(b) == CHOOSE tc \in KnownTypeCodes \cup {UnknownTypeCode} : Ord(tc) = b

\* _COOKIE_MAGIC_PATTERN = b'MEI\014\013\012\013\016' (line 416).
COOKIE_MAGIC_PATTERN == <<77, 69, 73, 12, 11, 10, 11, 14>>

\* struct.calcsize('!8sIIii64s') (line 420).
COOKIE_LENGTH == 88

\* struct.calcsize('!iIIIBB') (line 423).
TOC_ENTRY_LENGTH == 18

\* The length of the pylibname field of the cookie (line 419: 64s).
PYLIBNAME_LENGTH == 64

\* sys.version_info[0] * 100 + sys.version_info[1] (line 462), for 3.11.
PYVERS == 311

\* struct.pack('!I', n) and struct.pack('!i', n) of 0 <= n < 2^31.
Pack32(n) ==
    <<(n \div 16777216) % 256, (n \div 65536) % 256, (n \div 256) % 256, n % 256>>

\* struct.unpack of the 4 bytes at 0-based offset off.
Unpack32(s, off) ==
    s[off + 1] * 16777216 + s[off + 2] * 65536 + s[off + 3] * 256 + s[off + 4]

\* struct.pack('Ns', b): b cut to n bytes, or filled with NULs to n bytes.
PackS(b, n) == [i \in 1..n |-> IF i <= Len(b) THEN b[i] ELSE 0]

\* str.encode('utf-8') of a name, a sequence of code points below 2048.
RECURSIVE Utf8Encode(_)
Utf8Encode(name) ==
    IF name = <<>> THEN <<>>
    ELSE LET cp == Head(name)
         IN  (IF cp < 128 THEN <<cp>> ELSE <<192 + (cp \div 64), 128 + (cp % 64)>>)
                 \o Utf8Encode(Tail(name))

\* bytes.decode('utf-8').
RECURSIVE Utf8Decode(_)
Utf8Decode(b) ==
    IF b = <<>> THEN <<>>
    ELSE IF Head(b) < 128 THEN <<Head(b)>> \o Utf8Decode(Tail(b))
    ELSE <<(Head(b) - 192) * 64 + (b[2] - 128)>> \o Utf8Decode(Tail(Tail(b)))

\* bytes.rstrip(b'\0').
RECURSIVE RStripNul(_)
RStripNul(b) ==
    IF b # <<>> /\ b[Len(b)] = 0 THEN RStripNul(SubSeq(b, 1, Len(b) - 1)) ELSE b

\* The sum of the bytes of b.
RECURSIVE SumBytes(_)
SumBytes(b) ==
    IF Len(b) = 0 THEN 0
    ELSE IF Len(b) = 1 THEN b[1]
    ELSE SumBytes(SubSeq(b, 1, Len(b) \div 2))
             + SumBytes(SubSeq(b, Len(b) \div 2 + 1, Len(b)))

\* zlib.compress(blob, level=9) (line 520) and the streaming compressor of
\* _write_file (lines 533-540), which give the same stream: a header byte,
\* the body, a check byte.  What matters to the archive is that the stored
\* form differs from the blob, in length too, and decompresses back to it.
Compress(blob) == <<120>> \o blob \o <<SumBytes(blob) % 256>>

\* zlib.decompress, as the reader's extract applies it.
Decompress(z) == SubSeq(z, 2, Len(z) - 1)

\* An optional value: None, or Some(x).
None == <<>>

Some(x) == <<x>>

IsNone(o) == o = <<>>

Val(o) == o[1]

-----------------------------------------------------------------------------
(* CArchiveReader2.find_magic_pattern (repack.py:78-102).                  *)

\* One pass of the loop body (lines 87-100) from end_pos = e.
ScanStepNoOverlap(fp, pat, e) ==
    LET start_pos  == Max(e - SEARCH_CHUNK_SIZE, 0)
        chunk_size == e - start_pos
        pos        == RFind(Slice(fp, start_pos, e), pat)
    IN  IF chunk_size < Len(pat) THEN [op |-> "break", value |-> -1]
        ELSE IF pos # -1 THEN [op |-> "found", value |-> start_pos + pos]
        ELSE [op |-> "next", value |-> start_pos]

ScanStep(fp, pat, e) ==
    LET start_pos  == Max(e - SEARCH_CHUNK_SIZE, 0)
        chunk_size == e - start_pos
        pos        == RFind(Slice(fp, start_pos, e), pat)
    IN  IF chunk_size < Len(pat) THEN [op |-> "break", value |-> -1]
        ELSE IF pos # -1 THEN [op |-> "found", value |-> start_pos + pos]
        ELSE [op |-> "next", value |-> start_pos + Len(pat) - 1]

\* The whole call, as the other operations use it.
RECURSIVE ScanFrom(_, _, _)
ScanFrom(fp, pat, e) ==
    IF e < Len(pat) THEN -1
    ELSE LET r == ScanStep(fp, pat, e)
         IN  IF r.op = "next" THEN ScanFrom(fp, pat, r.value) ELSE r.value

find_magic_pattern(fp, pat) == ScanFrom(fp, pat, Len(fp))

\* lines 80-85: seek to the end, tell, magic_offset = -1.
ScanOpen ==
    /\ scan_pc = "start"
    /\ end_pos' = Len(stream)
    /\ magic_offset' = -1
    /\ scan_pc' = "loop"
    /\ UNCHANGED <<stream, magic_pattern, fileVars, envVars, runVars, extractVars>>

\* lines 86-100: one iteration of the while loop.
ScanIterate ==
    /\ scan_pc = "loop"
    /\ end_pos >= Len(magic_pattern)
    /\ LET r == ScanStep(stream, magic_pattern, end_pos)
       IN  \/ /\ r.op = "break"
              /\ scan_pc' = "done"
              /\ UNCHANGED <<end_pos, magic_offset>>
           \/ /\ r.op = "found"
              /\ magic_offset' = r.value
              /\ scan_pc' = "done"
              /\ UNCHANGED end_pos
           \/ /\ r.op = "next"
              /\ end_pos' = r.value
              /\ UNCHANGED <<magic_offset, scan_pc>>
    /\ UNCHANGED <<stream, magic_pattern, fileVars, envVars, runVars, extractVars>>

\* line 86 false, line 102: the loop ends and magic_offset is returned.
ScanReturn ==
    /\ scan_pc = "loop"
    /\ end_pos < Len(magic_pattern)
    /\ scan_pc' = "done"
    /\ UNCHANGED <<stream, magic_pattern, end_pos, magic_offset, fileVars, envVars, runVars,
                   extractVars>>

-----------------------------------------------------------------------------
(* Paths and files.  A path or a name is a sequence of code points; the    *)
(* file system is a function from the paths that exist to their bytes.     *)

Slash == 47

Colon == 58

\* '.py' and '__init__.py'.
DotPy == <<46, 112, 121>>

InitPy == <<95, 95, 105, 110, 105, 116, 95, 95, 46, 112, 121>>

\* os.path.join(a, b) on a POSIX build machine: an absolute b replaces a.
Join(a, b) ==
    IF StartsWith(b, <<Slash>>) THEN b
    ELSE IF a = <<>> \/ EndsWith(a, <<Slash>>) THEN a \o b
    ELSE a \o <<Slash>> \o b

\* os.path.exists(p).
Exists(files, p) == p \in DOMAIN files

\* str.split(c).
RECURSIVE SplitOn(_, _)
SplitOn(s, c) ==
    IF \A i \in 1..Len(s) : s[i] # c THEN <<s>>
    ELSE LET i == CHOOSE k \in 1..Len(s) : s[k] = c /\ \A j \in 1..(k - 1) : s[j] # c
         IN  <<SubSeq(s, 1, i - 1)>> \o SplitOn(SubSeq(s, i + 1, Len(s)), c)

\* The loop of posixpath.normpath over the components.
RECURSIVE NormComps(_, _, _)
NormComps(comps, new_comps, initial_slashes) ==
    IF comps = <<>> THEN new_comps
    ELSE LET comp == Head(comps)
             dotdot == <<46, 46>>
         IN  IF comp = <<>> \/ comp = <<46>>
                 THEN NormComps(Tail(comps), new_comps, initial_slashes)
             ELSE IF \/ comp # dotdot
                     \/ (initial_slashes = 0 /\ new_comps = <<>>)
                     \/ (new_comps # <<>> /\ new_comps[Len(new_comps)] = dotdot)
                 THEN NormComps(Tail(comps), Append(new_comps, comp), initial_slashes)
             ELSE IF new_comps # <<>>
                 THEN NormComps(Tail(comps), SubSeq(new_comps, 1, Len(new_comps) - 1),
                                initial_slashes)
             ELSE NormComps(Tail(comps), new_comps, initial_slashes)

\* '/'.join(comps).
RECURSIVE JoinComps(_)
JoinComps(comps) ==
    IF comps = <<>> THEN <<>>
    ELSE IF Len(comps) = 1 THEN comps[1]
    ELSE comps[1] \o <<Slash>> \o JoinComps(Tail(comps))

\* os.path.normpath(path) (line 480), POSIX.
Normpath(path) ==
    IF path = <<>> THEN <<46>>
    ELSE LET starts(n) == Len(path) >= n /\ \A i \in 1..n : path[i] = Slash
             initial_slashes == IF ~starts(1) THEN 0
                                ELSE IF starts(2) /\ ~starts(3) THEN 2 ELSE 1
             joined == JoinComps(NormComps(SplitOn(path, Slash), <<>>, initial_slashes))
             out == [i \in 1..initial_slashes |-> Slash] \o joined
         IN  IF out = <<>> THEN <<46>> ELSE out

-----------------------------------------------------------------------------
(* The reader side: get_cookie_info (repack.py:104-114) and the part of     *)
(* the library's CArchiveReader that repack.py relies on, which follows the *)
(* cookie and TOC layouts written down at lines 51-76.                      *)

\* get_cookie_info(fp): the cookie at the highest occurrence of the magic.
\* With no occurrence find_magic_pattern gives -1 and fp.seek(-1) raises;
\* with fewer than 88 bytes left struct.unpack raises.
read_cookie(fp, cookie_pos) ==
    IF cookie_pos = -1 THEN [err |-> "magic not found"]
    ELSE IF Len(fp) - cookie_pos < COOKIE_LENGTH THEN [err |-> "struct.error"]
    ELSE [err       |-> "",
          pos       |-> cookie_pos,
          magic     |-> Slice(fp, cookie_pos, cookie_pos + 8),
          len       |-> Unpack32(fp, cookie_pos + 8),
          TOC       |-> Unpack32(fp, cookie_pos + 12),
          TOClen    |-> Unpack32(fp, cookie_pos + 16),
          pyvers    |-> Unpack32(fp, cookie_pos + 20),
          pylibname |-> Slice(fp, cookie_pos + 24, cookie_pos + COOKIE_LENGTH)]

get_cookie_info(fp) == read_cookie(fp, find_magic_pattern(fp, COOKIE_MAGIC_PATTERN))

\* The TOC entries of a TOC region, each <<name, <<pos, len, ulen, cflag,
\* typcd>>>> (struct _toc, lines 65-75): the name runs to structlen and is
\* stripped of its NULs.
RECURSIVE ParseToc(_)
ParseToc(b) ==
    IF Len(b) < TOC_ENTRY_LENGTH THEN <<>>
    ELSE <<(<<Utf8Decode(RStripNul(Slice(b, TOC_ENTRY_LENGTH, Unpack32(b, 0)))),
              <<Unpack32(b, 4), Unpack32(b, 8), Unpack32(b, 12), b[17], Chr(b[18])>>>>)>>
             \o ParseToc(Slice(b, Unpack32(b, 0), Len(b)))

\* CArchiveReader2(path): the reader over the file fp, with the offset at
\* which the archive starts and the TOC of get_toc (lines 116-119) in TOC
\* order.  Names are unique within one TOC, so the name-keyed mapping keeps
\* every entry.  A file without a cookie gives a reader with an empty TOC.
ReaderAt(fp, c, start) ==
    IF start < 0 THEN [fp |-> fp, start |-> 0, toc |-> <<>>]
    ELSE [fp    |-> fp,
          start |-> start,
          toc   |-> ParseToc(Slice(fp, start + c.TOC, start + c.TOC + c.TOClen))]

ReaderOf(fp, c) ==
    IF c.err # "" THEN [fp |-> fp, start |-> 0, toc |-> <<>>]
    ELSE ReaderAt(fp, c, c.pos + COOKIE_LENGTH - c.len)

CArchiveReader2(fp) == ReaderOf(fp, get_cookie_info(fp))

get_toc(pkg) == pkg.toc

HasEntry(pkg, name) == \E i \in 1..Len(pkg.toc) : pkg.toc[i][1] = name

\* fix_extract(pkgarch.extract(name)) (lines 197-198, 447): the entry's
\* bytes, decompressed when its flag is set.
ExtractEntry(pkg, e) ==
    IF e[4] # 0
        THEN Decompress(Slice(pkg.fp, pkg.start + e[1], pkg.start + e[1] + e[2]))
    ELSE Slice(pkg.fp, pkg.start + e[1], pkg.start + e[1] + e[2])

Extract(pkg, name) ==
    ExtractEntry(pkg, pkg.toc[CHOOSE k \in 1..Len(pkg.toc) : pkg.toc[k][1] = name][2])

-----------------------------------------------------------------------------
(* CArchiveWriterLocal (repack.py:409-579).  A TOC entry is the tuple       *)
(* <<data_offset, compressed_length, data_length, compress, typecode,       *)
(* name>>; a logical entry is <<dest_name, source, compress, typecode>>     *)
(* with source None or Some(path).                                          *)

\* BYTECODE_MAGIC of the interpreter (line 20), here CPython 3.11's.
BYTECODE_MAGIC == <<167, 13, 13, 10>>

\* marshal.dumps(strip_paths_in_code(get_code_object(name, src))) (lines
\* 495-497): the compiler is an outside collaborator; its result is some
\* blob that the source text decides.
CompileSource(text) == <<227>> \o text

\* _write_blob (lines 512-523).
write_stored_ulen(out_fp, stored, data_length, dest_name, typecode, compress) ==
    [err |-> "",
     fp |-> out_fp \o stored,
     toc_entry |-> <<Len(out_fp), data_length, data_length, compress, typecode, dest_name>>]

write_stored(out_fp, stored, data_length, dest_name, typecode, compress) ==
    [err |-> "",
     fp |-> out_fp \o stored,
     toc_entry |-> <<Len(out_fp), Len(stored), data_length, compress, typecode, dest_name>>]

write_blob(out_fp, blob, dest_name, typecode, compress) ==
    write_stored(out_fp, IF compress # 0 THEN Compress(blob) ELSE blob, Len(blob),
                 dest_name, typecode, compress)

\* _write_file (lines 525-544): os.stat raises for a missing file.
write_file(out_fp, files, src_name, dest_name, typecode, compress) ==
    IF ~Exists(files, src_name) THEN [err |-> "FileNotFoundError"]
    ELSE write_stored(out_fp,
                      IF compress # 0 THEN Compress(files[src_name]) ELSE files[src_name],
                      Len(files[src_name]), dest_name, typecode, compress)

\* _write_entry (lines 475-510), for an entry with a source.
write_entry_as(fp, dest_name, src_name, compress, typecode, files) ==
    IF typecode = "o" THEN write_blob(fp, <<>>, dest_name, typecode, 0)
    ELSE IF typecode = "d"
        THEN write_blob(fp, <<>>, src_name \o <<Colon>> \o dest_name, typecode, 0)
    ELSE IF typecode = "s"
        THEN IF ~Exists(files, src_name) THEN [err |-> "FileNotFoundError"]
             ELSE write_blob(fp, CompileSource(files[src_name]), dest_name, typecode,
                             compress)
    ELSE IF typecode \in {"m", "M"}
        THEN IF ~Exists(files, src_name) THEN [err |-> "FileNotFoundError"]
             ELSE IF Slice(files[src_name], 0, 4) # BYTECODE_MAGIC
                 THEN [err |-> "bytecode magic mismatch"]
             ELSE write_blob(fp, Slice(files[src_name], 16, Len(files[src_name])),
                             dest_name, typecode, compress)
    ELSE write_file(fp, files, src_name, dest_name, typecode, compress)

\* line 480: dest_name = os.path.normpath(dest_name), then the branches.
write_entry(fp, entry, files) ==
    write_entry_as(fp, Normpath(entry[1]), Val(entry[2]), entry[3], entry[4], files)

\* One entry of the loop of __init__ (lines 444-451).
write_one(fp, entry, pkg, files) ==
    IF IsNone(entry[2])
        THEN IF ~HasEntry(pkg, entry[1]) THEN [err |-> "KeyError"]
             ELSE write_blob(fp, Extract(pkg, entry[1]), entry[1], entry[4], entry[3])
    ELSE write_entry(fp, entry, files)

\* The loop of __init__ (lines 443-451) from the entries that are left.
RECURSIVE WriteEntries(_, _, _, _, _)
\* r is what writing the first of the entries gave.
WriteRest(r, entries, pkg, files, fp, toc) ==
    IF r.err # "" THEN [err |-> r.err, fp |-> fp, toc |-> toc]
    ELSE WriteEntries(Tail(entries), pkg, files, r.fp, Append(toc, r.toc_entry))

WriteEntries(entries, pkg, files, fp, toc) ==
    IF entries = <<>> THEN [err |-> "", fp |-> fp, toc |-> toc]
    ELSE WriteRest(write_one(fp, Head(entries), pkg, files), entries, pkg, files, fp, toc)

\* name_length of a TOC entry before padding (line 555).
NameLength(toc_entry) == Len(Utf8Encode(toc_entry[6])) + 1

\* The body of the loop of _serialize_toc (lines 549-577) for one entry.
\* padding_length is the local of that name as the iteration finds it: None
\* while nothing has been assigned to it.  Line 564 reads it in either branch
\* of the if, and only the else branch (lines 562-563) assigns it.
SerializeEntry(toc_entry, padding_length) ==
    LET name == Utf8Encode(toc_entry[6])
        name_length == Len(name) + 1
        entry_length == TOC_ENTRY_LENGTH + name_length
        aligned == entry_length % 16 = 0
        pl == IF aligned THEN padding_length ELSE Some(16 - (entry_length % 16))
        name_padding == IF aligned THEN <<0>> ELSE Zeros(Val(pl))
    IN  IF IsNone(pl) THEN [raised |-> TRUE, padding_length |-> pl, record |-> <<>>]
        ELSE LET name_length2 == name_length + Val(pl)
             IN  [raised |-> FALSE,
                  padding_length |-> pl,
                  record |-> Pack32(TOC_ENTRY_LENGTH + name_length2)
                                 \o Pack32(toc_entry[1]) \o Pack32(toc_entry[2])
                                 \o Pack32(toc_entry[3])
                                 \o <<toc_entry[4], Ord(toc_entry[5])>>
                                 \o PackS(name \o name_padding, name_length2)]

\* _serialize_toc (lines 546-579): the records, or the UnboundLocalError of
\* line 564.
RECURSIVE SerializeFrom(_, _, _)
\* r is what the iteration for the first entry of toc gave.
SerializeRest(r, toc, records) ==
    IF r.raised THEN [raised |-> TRUE, records |-> records]
    ELSE SerializeFrom(Tail(toc), r.padding_length, Append(records, r.record))

SerializeFrom(toc, padding_length, records) ==
    IF toc = <<>> THEN [raised |-> FALSE, records |-> records]
    ELSE SerializeRest(SerializeEntry(Head(toc), padding_length), toc, records)

serialize_toc(toc) == SerializeFrom(toc, None, <<>>)

\* b''.join(records).
RECURSIVE Concat(_)
Concat(seqs) == IF seqs = <<>> THEN <<>> ELSE Head(seqs) \o Concat(Tail(seqs))

\* The cookie of lines 461-471.
CookieData(archive_length, toc_offset, toc_length, pylib_name) ==
    COOKIE_MAGIC_PATTERN \o Pack32(archive_length) \o Pack32(toc_offset)
        \o Pack32(toc_length) \o Pack32(PYVERS) \o PackS(pylib_name, PYLIBNAME_LENGTH)

\* What a run of the writer leaves when nothing has been written.
NotBuilt ==
    [err |-> "not built", by |-> "", file |-> <<>>, entries |-> <<>>, toc |-> <<>>,
     records |-> <<>>, toc_offset |-> -1, toc_length |-> -1, archive_length |-> -1]

\* CArchiveWriterLocal.__init__ (lines 427-473): the file it leaves, with
\* the locals the claims speak of.  An exception leaves the bytes written so
\* far (the with block closes the file) and no TOC and no cookie.
\* lines 453-471, given the data region w and the serialized TOC.
WriteTocAndCookie(w, ser_records, toc_data, entries, pylib_name) ==
    [err |-> "",
     by |-> "",
     file |-> w.fp \o toc_data
                  \o CookieData(Len(w.fp) + Len(toc_data) + COOKIE_LENGTH, Len(w.fp),
                                Len(toc_data), pylib_name),
     entries |-> entries,
     toc |-> w.toc,
     records |-> ser_records,
     toc_offset |-> Len(w.fp),
     toc_length |-> Len(toc_data),
     archive_length |-> Len(w.fp) + Len(toc_data) + COOKIE_LENGTH]

WriterFailed(w, e, entries) ==
    [NotBuilt EXCEPT !.err = e, !.file = w.fp, !.entries = entries, !.toc = w.toc]

\* lines 453-455, given the data region w and what _serialize_toc gave.
WriteToc(w, ser, entries, pylib_name) ==
    IF ser.raised THEN WriterFailed(w, "UnboundLocalError", entries)
    ELSE WriteTocAndCookie(w, ser.records, Concat(ser.records), entries, pylib_name)

\* lines 443-471, given what the loop over the entries gave.
WriterAfterEntries(w, entries, pylib_name) ==
    IF w.err # "" THEN WriterFailed(w, w.err, entries)
    ELSE WriteToc(w, serialize_toc(w.toc), entries, pylib_name)

CArchiveWriterLocal(entries, pylib_name, pkg, files) ==
    WriterAfterEntries(WriteEntries(entries, pkg, files, <<>>, <<>>), entries, pylib_name)

-----------------------------------------------------------------------------
(* The outer rebuild: get_logical_toc and repack_carchive.                  *)

\* obfpath and buildpath of the run: 'o' and 'b'.
OBFPATH == <<111>>

BUILDPATH == <<98>>

\* get_logical_toc (lines 129-151): one logical entry per TOC entry.
LogicalEntry(name, entry, files) ==
    LET flag == entry[4]
        typecode == entry[5]
        source ==
            IF typecode = PKG_ITEM_PYMODULE THEN Some(Join(OBFPATH, name \o DotPy))
            ELSE IF typecode = PKG_ITEM_PYSOURCE THEN Some(Join(OBFPATH, name \o DotPy))
            ELSE IF typecode = PKG_ITEM_PYPACKAGE
                THEN Some(Join(Join(OBFPATH, name), InitPy))
            ELSE IF typecode = PKG_ITEM_PYZ THEN Some(Join(BUILDPATH, name))
            ELSE IF typecode \in {PKG_ITEM_DEPENDENCY, PKG_ITEM_RUNTIME_OPTION}
                THEN Some(<<>>)
            ELSE None
        truthy == ~IsNone(source) /\ Val(source) # <<>>
    IN  <<name, IF truthy /\ ~Exists(files, Val(source)) THEN None ELSE source,
          flag, typecode>>

get_logical_toc(pkg, files) ==
    [i \in 1..Len(get_toc(pkg)) |->
        LogicalEntry(get_toc(pkg)[i][1], get_toc(pkg)[i][2], files)]

\* repack_carchive (lines 271-279).  CArchiveWriter2 hands the writing to the
\* library's CArchiveWriter; CArchiveWriterLocal is this file's copy of that
\* writer, and the model writes with it.
repack_carchive_of(pkgarch, cookie, files, rtentry_) ==
    IF cookie.err # "" THEN [NotBuilt EXCEPT !.err = cookie.err]
    ELSE CArchiveWriterLocal(
             get_logical_toc(pkgarch, files)
                 \o (IF IsNone(rtentry_) THEN <<>> ELSE <<Val(rtentry_)>>),
             cookie.pylibname, pkgarch, files)

repack_carchive(exe, files, rtentry_) ==
    repack_carchive_of(CArchiveReader2(exe), get_cookie_info(exe), files, rtentry_)

\* The entries of an unchanged rebuild: every entry of the original with no
\* replacement source.
UnchangedEntries(pkg) ==
    [i \in 1..Len(get_toc(pkg)) |->
        <<get_toc(pkg)[i][1], None, get_toc(pkg)[i][2][4], get_toc(pkg)[i][2][5]>>]

-----------------------------------------------------------------------------
(* CArchiveWriter2 (repack.py:154-195) over a library older than 5.10: the  *)
(* library's constructor calls add for every entry.                         *)

\* The temporary file of _write_rawdata.
TmpPath == <<116, 109, 112>>

\* The library's add(entry): it writes the entry as _write_entry does and
\* records the TOC tuple.
LibraryAdd(fp, entry, files) == write_entry(fp, entry, files)

KeepAddedTypecode(r, typecode) == r

\* lines 172-174: the type code of the TOC tuple just recorded is replaced.
PutBackTypecode(r, typecode) ==
    [r EXCEPT !.toc_entry = [r.toc_entry EXCEPT ![5] = typecode]]

\* _write_rawdata (lines 160-176) with a library that has no _write_blob:
\* the raw data goes through a temporary file; a source, module or package
\* entry is added as data and its recorded type code is then put back
\* (lines 172-174).
write_rawdata_tmp(fp, tmpfiles, name, typecode, compress) ==
    IF typecode \in {PKG_ITEM_PYSOURCE, PKG_ITEM_PYMODULE, PKG_ITEM_PYPACKAGE}
        THEN PutBackTypecode(
                 LibraryAdd(fp, <<name, Some(TmpPath), compress, PKG_ITEM_DATA>>, tmpfiles),
                 typecode)
    ELSE LibraryAdd(fp, <<name, Some(TmpPath), compress, typecode>>, tmpfiles)

write_rawdata_legacy(fp, pkg, name, typecode, compress, files) ==
    write_rawdata_tmp(fp, (TmpPath :> Extract(pkg, name)) @@ files, name, typecode, compress)

\* _write_rawdata (lines 161-165) with a library that has _write_blob.
write_rawdata_blob(fp, pkg, name, typecode, compress) ==
    write_blob(fp, Extract(pkg, name), name, typecode, compress)

\* CArchiveWriter2.add (lines 178-185); api is "legacy" or "blob".
add(api, fp, entry, pkg, files) ==
    IF IsNone(entry[2])
        THEN IF ~HasEntry(pkg, entry[1]) THEN [err |-> "KeyError"]
             ELSE IF api = "blob"
                 THEN write_rawdata_blob(fp, pkg, entry[1], entry[4], entry[3])
             ELSE write_rawdata_legacy(fp, pkg, entry[1], entry[4], entry[3], files)
    ELSE LibraryAdd(fp, entry, files)

RECURSIVE AddEntries(_, _, _, _, _, _)
AddRest(r, api, entries, pkg, files, fp, toc) ==
    IF r.err # "" THEN [err |-> r.err, fp |-> fp, toc |-> toc]
    ELSE AddEntries(api, Tail(entries), pkg, files, r.fp, Append(toc, r.toc_entry))

AddEntries(api, entries, pkg, files, fp, toc) ==
    IF entries = <<>> THEN [err |-> "", fp |-> fp, toc |-> toc]
    ELSE AddRest(add(api, fp, Head(entries), pkg, files), api, entries, pkg, files, fp, toc)

\* repack_carchive over such a library: the entries' data and toc.data as
\* add leaves them; the library then writes its TOC from toc.data.
Added(w, logical_toc) ==
    [NotBuilt EXCEPT !.err = w.err, !.file = w.fp, !.entries = logical_toc, !.toc = w.toc]

AddAll(api, logical_toc, pkgarch, files) ==
    Added(AddEntries(api, logical_toc, pkgarch, files, <<>>, <<>>), logical_toc)

repack_carchive_add_of(api, pkgarch, cookie, files, rtentry_) ==
    IF cookie.err # "" THEN [NotBuilt EXCEPT !.err = cookie.err]
    ELSE AddAll(api,
                get_logical_toc(pkgarch, files)
                    \o (IF IsNone(rtentry_) THEN <<>> ELSE <<Val(rtentry_)>>),
                pkgarch, files)

repack_carchive_add(api, exe, files, rtentry_) ==
    repack_carchive_add_of(api, CArchiveReader2(exe), get_cookie_info(exe), files, rtentry_)

-----------------------------------------------------------------------------
(* The archives and files the runs start from.                              *)

Rep(c, n) == [i \in 1..n |-> c]

\* TOC record of an entry as a writer that keeps the format rule lays it
\* out: the name, its NUL, and 1 to 16 bytes of padding to a multiple of 16.
ConformantRecord(toc_entry) ==
    LET name == Utf8Encode(toc_entry[6])
        entry_length == TOC_ENTRY_LENGTH + Len(name) + 1
        name_length == Len(name) + 1 + (16 - (entry_length % 16))
    IN  Pack32(TOC_ENTRY_LENGTH + name_length)
            \o Pack32(toc_entry[1]) \o Pack32(toc_entry[2]) \o Pack32(toc_entry[3])
            \o <<toc_entry[4], Ord(toc_entry[5])>> \o PackS(name, name_length)

\* The data region and TOC tuples of the items [name, typecode, cflag, data].
RECURSIVE ConformantData(_, _, _)
ConformantData(items, fp, toc) ==
    IF items = <<>> THEN [fp |-> fp, toc |-> toc]
    ELSE LET it == Head(items)
             stored == IF it.cflag # 0 THEN Compress(it.data) ELSE it.data
         IN  ConformantData(Tail(items), fp \o stored,
                            Append(toc, <<Len(fp), Len(stored), Len(it.data), it.cflag,
                                          it.typecode, it.name>>))

\* An archive as a conformant writer produces it from the items.
ConformantFile(fp, toc_data, pylib_name) ==
    fp \o toc_data
       \o CookieData(Len(fp) + Len(toc_data) + COOKIE_LENGTH, Len(fp), Len(toc_data),
                     pylib_name)

ConformantOf(d, pylib_name) ==
    ConformantFile(d.fp, Concat([i \in 1..Len(d.toc) |-> ConformantRecord(d.toc[i])]),
                   pylib_name)

ConformantArchive(items, pylib_name) ==
    ConformantOf(ConformantData(items, <<>>, <<>>), pylib_name)

\* The bootloader stub in front of the archive (its last byte is the header
\* field the platform tools rewrite), and the name of the Python library in
\* the cookie ('py').
BOOT == <<127, 69, 0>>

PYLIB == <<112, 121>>

\* The items the original archives of the outer rebuild are made of: every
\* way the writer treats an entry, and names whose record is 1, 12 and 16
\* bytes short of a multiple of 16 (the latter: 13 bytes of UTF-8).
ItemPool ==
    {[name |-> <<97>>,                      typecode |-> "s", cflag |-> 0, data |-> <<1, 2>>],
     [name |-> Rep(107, 13),                typecode |-> "x", cflag |-> 1, data |-> <<3>>],
     [name |-> Rep(109, 12),                typecode |-> "m", cflag |-> 1, data |-> <<4, 5, 6>>],
     [name |-> <<114, 58, 100>>,            typecode |-> "d", cflag |-> 0, data |-> <<>>],
     [name |-> <<117>>,                     typecode |-> "o", cflag |-> 0, data |-> <<>>],
     [name |-> <<122>>,                     typecode |-> "z", cflag |-> 0,
      data |-> <<110, 0, 5, 112, 1, 6, 100, 2, 7, 115, 3, 0>>],
     [name |-> <<233>> \o Rep(98, 11),      typecode |-> "b", cflag |-> 1, data |-> <<7>>],
     [name |-> <<113, 49>>,                 typecode |-> UnknownTypeCode, cflag |-> 0,
      data |-> <<8>>]}

\* The sequences of at most n different elements of S.
DistinctSeqs(S, n) ==
    UNION {{q \in [1..k -> S] : \A i, j \in 1..k : i # j => q[i] # q[j]} : k \in 0..n}

\* rtname, rtpath and the runtime library of the replacement tree:
\* 'rt', 'o/rt', 'pyarmor_runtime.so'.
RTNAME == <<114, 116>>

RTPATH == Join(OBFPATH, RTNAME)

PyarmorRuntime == <<112, 121, 97, 114, 109, 111, 114, 95, 114, 117, 110, 116, 105, 109, 101>>

RuntimeSo == PyarmorRuntime \o <<46, 115, 111>>

\* The rtentry of one-file mode (line 397).
RtEntry(x) == <<Join(RTNAME, x), Some(Join(RTPATH, x)), 1, "b">>

\* The replacement tree: the runtime library alone; with a script, a
\* compiled module and a rebuilt PYZ; the same with a module file whose
\* header is not this interpreter's.
DiskRuntime == Join(RTPATH, RuntimeSo) :> <<40, 41>>

DiskGood ==
    (Join(OBFPATH, <<97>> \o DotPy) :> <<10, 11, 12>>)
        @@ (Join(OBFPATH, Rep(109, 12) \o DotPy) :> (BYTECODE_MAGIC \o Zeros(12) \o <<20, 21>>))
        @@ (Join(BUILDPATH, <<122>>) :> <<30, 31, 32>>)
        @@ DiskRuntime

DiskBad ==
    (Join(OBFPATH, Rep(109, 12) \o DotPy) :> (<<0, 13, 13, 10>> \o Zeros(12) \o <<20, 21>>))
        @@ DiskGood

Disks == {DiskRuntime, DiskGood, DiskBad}

\* The values of the variables an operation does not use.
ScanIdle ==
    /\ stream = <<>>
    /\ magic_pattern = <<0>>
    /\ end_pos = 0
    /\ magic_offset = -1
    /\ scan_pc = "idle"

EnvIdle ==
    /\ platform = "other"
    /\ hooks = {}
    /\ rtfiles = <<>>

ExtractIdle ==
    /\ pyzname = <<>>
    /\ pyzarch = <<>>
    /\ member = 0
    /\ written = <<>>

-----------------------------------------------------------------------------
(* Repacker.repack (repack.py:363-406) as a sequence of steps.              *)

\* The steps of repack in the order of the code: the inner archives (lines
\* 375-380), the runtime library and its bundling (382-402), the outer
\* archive (405), the patch of the host (406).
RepackOrderPyzLast == <<"runtime", "carchive", "executable", "pyz">>

RepackOrder == <<"pyz", "runtime", "carchive", "executable">>

StepAfter(step) ==
    LET i == CHOOSE k \in 1..Len(RepackOrder) : RepackOrder[k] = step
    IN  IF i = Len(RepackOrder) THEN "done" ELSE RepackOrder[i + 1]

\* The run ends with the exception e.
Fail(e) ==
    /\ pc' = "failed"
    /\ err' = e

\* repack_carchive (line 405).  A cookie that cannot be read ends the call
\* before the package file is opened; any later exception leaves the file
\* with what was written.
RepackCarchive ==
    /\ pc = "carchive"
    /\ built' = [repack_carchive(executable, disk, rtentry) EXCEPT !.by = "local"]
    /\ pkgfile' = IF built'.err \in {"magic not found", "struct.error"}
                      THEN pkgfile ELSE Some(built'.file)
    /\ IF built'.err = "" THEN pc' = StepAfter("carchive") /\ err' = err
                          ELSE Fail(built'.err)
    /\ started' = started \cup {"carchive"}
    /\ UNCHANGED <<scanVars, extractVars, executable, exe0, disk, copied, envVars, pyz_tocs,
                   one_file_mode, rtentry, offset>>

\* repack_carchive with a library older than 5.10, which adds entry by entry.
RepackCarchiveAdd ==
    /\ pc = "carchive"
    /\ \E api \in {"legacy", "blob"} :
          built' = [repack_carchive_add(api, executable, disk, rtentry) EXCEPT !.by = api]
    /\ IF built'.err = "" THEN pc' = "added" /\ err' = err ELSE Fail(built'.err)
    /\ started' = started \cup {"carchive"}
    /\ UNCHANGED <<scanVars, extractVars, fileVars, envVars, pyz_tocs, one_file_mode, rtentry,
                   offset>>

\* The writer run on the original archive with no replacement source at all.
rebuild_of(pkgarch, files) ==
    CArchiveWriterLocal(UnchangedEntries(pkgarch), PYLIB, pkgarch, files)

rebuild_unchanged(exe, files) == rebuild_of(CArchiveReader2(exe), files)

RebuildUnchanged ==
    /\ pc = "carchive"
    /\ built' = [rebuild_unchanged(executable, disk) EXCEPT !.by = "unchanged"]
    /\ pkgfile' = Some(built'.file)
    /\ IF built'.err = "" THEN pc' = "rebuilt" /\ err' = err ELSE Fail(built'.err)
    /\ started' = started \cup {"carchive"}
    /\ UNCHANGED <<scanVars, extractVars, executable, exe0, disk, copied, envVars, pyz_tocs,
                   one_file_mode, rtentry, offset>>

-----------------------------------------------------------------------------
(* The inner archives: extract_carchive, extract_pyzarchive and             *)
(* repack_pyzarchive (repack.py:201-268, 337-361).  The bytes of an inner   *)
(* archive are its members one after the other, each a name byte, a type    *)
(* code and a byte of data; its TOC is a sequence of <<name, typecode>>.    *)

\* Type codes for PYZ entries (lines 25-28).
PYZ_ITEM_MODULE == 0

PYZ_ITEM_PKG == 1

PYZ_ITEM_DATA == 2

PYZ_ITEM_NSPKG == 3

\* Path suffix for extracted contents (line 43): '_extracted'.
EXTRACT_SUFFIX == <<95, 101, 120, 116, 114, 97, 99, 116, 101, 100>>

\* '.pyc' and '__init__.pyc'.
DotPyc == DotPy \o <<99>>

InitPyc == InitPy \o <<99>>

\* self.one_file_mode = len(pkgtoc) > 10 (line 361).
ONE_FILE_ENTRIES == 10

\* ZlibArchiveReader(...).toc of the inner archive with the bytes data
\* (lines 121-127, 351-352).
InnerToc(data) ==
    [i \in 1..(Len(data) \div 3) |-> <<(<<data[3 * i - 2]>>), data[3 * i - 1]>>]

\* pyzarch.extract(name) of its i-th member.
InnerData(data, i) == <<data[3 * i]>>

\* _code_to_timestamp_pyc(code): the 16-byte header and the code.
code_to_timestamp_pyc(code) == BYTECODE_MAGIC \o Zeros(12) \o code

\* files with the writes <<path, bytes>> carried out in order.
RECURSIVE WriteAll(_, _)
WriteAll(files, writes) ==
    IF writes = <<>> THEN files
    ELSE WriteAll((Head(writes)[1] :> Head(writes)[2]) @@ files, Tail(writes))

\* The members of the inner archive with the bytes data, as the loop of
\* extract_pyzarchive meets them: name, typecode and what extract gives.
InnerMembers(data) ==
    [i \in 1..(Len(data) \div 3) |->
        [name |-> <<data[3 * i - 2]>>, typecode |-> data[3 * i - 1], data |-> InnerData(data, i)]]

\* name.replace('..', '__') (line 207): occurrences from the left, not
\* overlapping.
RECURSIVE ReplaceDotDot(_)
ReplaceDotDot(s) ==
    IF Len(s) < 2 THEN s
    ELSE IF s[1] = 46 /\ s[2] = 46 THEN <<95, 95>> \o ReplaceDotDot(SubSeq(s, 3, Len(s)))
    ELSE <<s[1]>> \o ReplaceDotDot(Tail(s))

\* .replace('.', os.path.sep) (line 207).
ReplaceDot(s) == [i \in 1..Len(s) |-> IF s[i] = 46 THEN Slash ELSE s[i]]

\* filename of line 207.
Filename(name) == ReplaceDot(ReplaceDotDot(name))

\* The file extract_pyzarchive writes for a member (lines 208-215): none for
\* a member of another type.
ExtractedPath(dirname, name, typecode) ==
    IF typecode = PYZ_ITEM_PKG THEN Some(Join(Join(dirname, Filename(name)), InitPyc))
    ELSE IF typecode = PYZ_ITEM_MODULE THEN Some(Join(dirname, Filename(name) \o DotPyc))
    ELSE IF typecode = PYZ_ITEM_DATA THEN Some(Join(dirname, Filename(name)))
    ELSE None

\* marshal's w_long: 4 bytes, little-endian.
w_long(n) == <<n % 256, (n \div 256) % 256, (n \div 65536) % 256, (n \div 16777216) % 256>>

\* marshal.dumps(obj) inside _code_to_timestamp_pyc (line 218).  A code
\* object is held here as its marshalled bytes; the data of a data member
\* is a bytes object, which marshal writes as 's', its length and the bytes.
marshal_dumps(typecode, obj) ==
    IF typecode = PYZ_ITEM_DATA THEN <<115>> \o w_long(Len(obj)) \o obj ELSE obj

\* os.path.dirname(p).
Dirname(p) ==
    LET slashes == {i \in 1..Len(p) : p[i] = Slash}
        head == IF slashes = {} THEN <<>>
                ELSE SubSeq(p, 1, CHOOSE i \in slashes : \A k \in slashes : k <= i)
        kept == {i \in 1..Len(head) : head[i] # Slash}
    IN  IF kept = {} THEN head
        ELSE SubSeq(head, 1, CHOOSE i \in kept : \A k \in kept : k <= i)

\* Whether p is a directory of the tree: the root, or a directory some file
\* lies in.
IsDir(files, p) ==
    \/ p = <<Slash>>
    \/ \E q \in DOMAIN files : StartsWith(q, p \o <<Slash>>)

\* Whether d or a directory above it is a file.
FileAbove(files, d) ==
    \E q \in DOMAIN files : q = d \/ StartsWith(d, q \o <<Slash>>)

\* Lines 216-218 for the file filepath: makedirs of its directory, open for
\* writing, write.  The file system knows a file by its normalized path.
write_member(filepath, code, files) ==
    IF FileAbove(files, Normpath(Dirname(filepath)))
        THEN [err |-> "NotADirectoryError", files |-> files, path |-> None]
    ELSE IF EndsWith(filepath, <<Slash>>) \/ IsDir(files, Normpath(filepath))
        THEN [err |-> "IsADirectoryError", files |-> files, path |-> None]
    ELSE [err   |-> "",
          files |-> (Normpath(filepath) :> code) @@ files,
          path  |-> Some(Normpath(filepath))]

\* The body of the loop (lines 205-218) for the member m.
extract_member_to(filepath, m, files) ==
    IF IsNone(filepath) THEN [err |-> "", files |-> files, path |-> None]
    ELSE write_member(Val(filepath),
                      code_to_timestamp_pyc(marshal_dumps(m.typecode, m.data)), files)

extract_member(dirname, m, files) ==
    extract_member_to(ExtractedPath(dirname, m.name, m.typecode), m, files)

\* dirname of line 202.
ExtractDir(output, name) == Join(output, name \o EXTRACT_SUFFIX)

\* The loop of lines 205-218 from the i-th member on; an exception ends it.
RECURSIVE ExtractMembers(_, _, _, _)
ExtractRest(r, dirname, members, i) ==
    IF r.err # "" THEN r.files ELSE ExtractMembers(dirname, members, i + 1, r.files)

ExtractMembers(dirname, members, i, files) ==
    IF i > Len(members) THEN files
    ELSE ExtractRest(extract_member(dirname, members[i], files), dirname, members, i)

\* extract_pyzarchive (lines 201-220) of the inner archive name with the
\* given members.
extract_pyzarchive(name, members, files) ==
    ExtractMembers(ExtractDir(BUILDPATH, name), members, 1, files)

\* The loop of extract_carchive (lines 348-357) from the i-th TOC entry on.
RECURSIVE ExtractFrom(_, _, _, _)
ExtractFrom(pkg, i, tocs, files) ==
    IF i > Len(get_toc(pkg)) THEN [pyz_tocs |-> tocs, files |-> files]
    ELSE IF get_toc(pkg)[i][2][5] # PKG_ITEM_PYZ THEN ExtractFrom(pkg, i + 1, tocs, files)
    ELSE ExtractFrom(pkg, i + 1,
             Append(tocs, <<get_toc(pkg)[i][1], InnerToc(Extract(pkg, get_toc(pkg)[i][1]))>>),
             extract_pyzarchive(get_toc(pkg)[i][1],
                                InnerMembers(Extract(pkg, get_toc(pkg)[i][1])), files))

ExtractedOf(pkg, r) ==
    [pyz_tocs      |-> r.pyz_tocs,
     files         |-> r.files,
     one_file_mode |-> Len(get_toc(pkg)) > ONE_FILE_ENTRIES]

ExtractAll(pkg, files) == ExtractedOf(pkg, ExtractFrom(pkg, 1, <<>>, files))

\* extract_carchive (lines 337-361) over the tree files, the build directory
\* being empty.
extract_carchive(exe, files) == ExtractAll(CArchiveReader2(exe), files)

\* extract_pyzarchive step by step.  Lines 202-203: the directory is made.
ExtractOpen ==
    /\ pc = "extract"
    /\ member = 0
    /\ member' = 1
    /\ UNCHANGED <<scanVars, fileVars, envVars, runVars, pyzname, pyzarch, written>>

\* One turn of the loop (lines 205-218): a member of another type is passed
\* over; an exception of makedirs or open ends the call.
ExtractMember ==
    /\ pc = "extract"
    /\ member \in 1..Len(pyzarch)
    /\ \E r \in {extract_member(ExtractDir(BUILDPATH, pyzname), pyzarch[member], disk)} :
          /\ disk' = r.files
          /\ IF r.err # "" THEN Fail(r.err) /\ UNCHANGED <<member, written>>
             ELSE /\ UNCHANGED <<pc, err>>
                  /\ member' = member + 1
                  /\ written' = IF IsNone(r.path) THEN written
                                ELSE Append(written, [member |-> member,
                                                      path   |-> Val(r.path),
                                                      bytes  |-> r.files[Val(r.path)]])
    /\ UNCHANGED <<scanVars, executable, exe0, pkgfile, copied, envVars, pyz_tocs,
                   one_file_mode, rtentry, started, built, offset, pyzname, pyzarch>>

\* Line 220.
ExtractReturn ==
    /\ pc = "extract"
    /\ member = Len(pyzarch) + 1
    /\ pc' = "extracted"
    /\ UNCHANGED <<scanVars, fileVars, envVars, pyz_tocs, one_file_mode, rtentry, err,
                   started, built, offset, extractVars>>

\* compile_item (lines 233-244): the file the code of an item is read from,
\* None when the last open raises.
compile_from(fullpathc, extra_path, files) ==
    IF Exists(files, fullpathc) THEN Some(fullpathc)
    ELSE IF Exists(files, Join(extra_path, Slice(fullpathc, Len(OBFPATH) + 1, Len(fullpathc))))
        THEN Some(Join(extra_path, Slice(fullpathc, Len(OBFPATH) + 1, Len(fullpathc))))
    ELSE None

compile_item(fullpath, extra_path, files) ==
    IF Exists(files, fullpath) THEN Some(fullpath)
    ELSE compile_from(fullpath \o <<99>>, extra_path, files)

\* code_dict[name] as compile_item leaves it: the source compiled, or the
\* code of a .pyc behind its 16-byte header.
CodeOf(path, files) ==
    IF EndsWith(path, DotPyc) THEN Slice(files[path], 16, Len(files[path]))
    ELSE CompileSource(files[path])

\* What compile_item and the logical TOC hold for an item whose code was
\* looked for: its logical entry <<name, typecode, bytes>>, or the exception.
pyz_compiled(name, found, files) ==
    IF IsNone(found) THEN [err |-> "FileNotFoundError"]
    ELSE [err |-> "", entry |-> <<name, "PYMODULE", CodeOf(Val(found), files)>>]

\* The branches of lines 253-262 for a package, a module, a data member: the
\* data of a data member is read from the extracted file by the writer.
pyz_typed_item(name, typecode, extra_path, files) ==
    IF typecode = PYZ_ITEM_PKG
        THEN pyz_compiled(name, compile_item(Join(Join(OBFPATH, Filename(name)), InitPy),
                                             extra_path, files), files)
    ELSE IF typecode = PYZ_ITEM_MODULE
        THEN pyz_compiled(name, compile_item(Join(OBFPATH, Filename(name) \o DotPy),
                                             extra_path, files), files)
    ELSE IF Exists(files, Join(extra_path, Filename(name)))
        THEN [err |-> "", entry |-> <<name, "DATA", files[Join(extra_path, Filename(name))]>>]
    ELSE [err |-> "FileNotFoundError"]

pyz_item_lenient(name, typecode, extra_path, files) ==
    IF typecode \in {PYZ_ITEM_PKG, PYZ_ITEM_MODULE, PYZ_ITEM_DATA}
        THEN pyz_typed_item(name, typecode, extra_path, files)
    ELSE [err |-> "", entry |-> <<name, "PYMODULE", <<>>>>]

\* The body of the loop of repack_pyzarchive (lines 251-266) for one member.
pyz_item(name, typecode, extra_path, files) ==
    IF typecode \in {PYZ_ITEM_PKG, PYZ_ITEM_MODULE, PYZ_ITEM_DATA}
        THEN pyz_typed_item(name, typecode, extra_path, files)
    ELSE IF typecode = PYZ_ITEM_NSPKG THEN [err |-> "", entry |-> <<name, "PYMODULE", <<>>>>]
    ELSE [err |-> "unknown PYZ item type"]

\* The loop of lines 251-266 from the members that are left.
RECURSIVE PyzItems(_, _, _, _)
PyzRest(r, pyztoc, extra_path, files, logical_toc) ==
    IF r.err # "" THEN [err |-> r.err, logical_toc |-> logical_toc]
    ELSE PyzItems(Tail(pyztoc), extra_path, files, Append(logical_toc, r.entry))

PyzItems(pyztoc, extra_path, files, logical_toc) ==
    IF pyztoc = <<>> THEN [err |-> "", logical_toc |-> logical_toc]
    ELSE PyzRest(pyz_item(Head(pyztoc)[1], Head(pyztoc)[2], extra_path, files),
                 pyztoc, extra_path, files, logical_toc)

\* ZlibArchiveWriter(pyzpath, logical_toc, code_dict) (line 268): the new
\* inner archive, every entry with its name, its kind and its bytes.
RECURSIVE ZlibArchiveWriter(_)
ZlibArchiveWriter(logical_toc) ==
    IF logical_toc = <<>> THEN <<>>
    ELSE Head(logical_toc)[1]
             \o <<IF Head(logical_toc)[2] = "DATA" THEN PYZ_ITEM_DATA ELSE PYZ_ITEM_MODULE>>
             \o Head(logical_toc)[3] \o ZlibArchiveWriter(Tail(logical_toc))

\* line 268, given what the loop gave.
pyz_written(w, pyzpath, files) ==
    IF w.err # "" THEN [err |-> w.err, files |-> files]
    ELSE [err |-> "", files |-> (pyzpath :> ZlibArchiveWriter(w.logical_toc)) @@ files]

\* lines 246-268, the runtime package being compiled (r) first.
pyz_after_runtime(r, pyzpath, pyztoc, extra_path, files) ==
    IF r.err # "" THEN [err |-> r.err, files |-> files]
    ELSE pyz_written(PyzItems(pyztoc, extra_path, files, <<r.entry>>), pyzpath, files)

\* repack_pyzarchive(pyzpath, pyztoc, obfpath, rtpath) (lines 223-268).
repack_pyzarchive(pyzpath, pyztoc, files) ==
    pyz_after_runtime(
        pyz_compiled(RTNAME, compile_item(Join(RTPATH, InitPy), pyzpath \o EXTRACT_SUFFIX,
                                          files), files),
        pyzpath, pyztoc, pyzpath \o EXTRACT_SUFFIX, files)

\* The loop of repack over self.contents (lines 375-380).
RECURSIVE RepackPyzAll(_, _)
RepackPyzRest(r, tocs) ==
    IF r.err # "" THEN r ELSE RepackPyzAll(Tail(tocs), r.files)

RepackPyzAll(tocs, files) ==
    IF tocs = <<>> THEN [err |-> "", files |-> files]
    ELSE RepackPyzRest(repack_pyzarchive(Join(BUILDPATH, Head(tocs)[1]), Head(tocs)[2], files),
                       tocs)

-----------------------------------------------------------------------------
(* Repacker.repack: the inner archives and the runtime library              *)
(* (repack.py:375-402).                                                     *)

\* os.path.splitext(x)[-1] of a file name: from the last dot on, a dot that
\* only dots precede being no extension.
ExtFrom(x, dots) ==
    IF dots = {} \/ \A j \in 1..(CHOOSE i \in dots : \A k \in dots : k <= i) : x[j] = 46
        THEN <<>>
    ELSE SubSeq(x, CHOOSE i \in dots : \A k \in dots : k <= i, Len(x))

Splitext(x) == ExtFrom(x, {i \in 1..Len(x) : x[i] = 46})

\* '.so' and '.pyd'.
DotSo == <<46, 115, 111>>

DotPyd == <<46, 112, 121, 100>>

IsRuntimeFileEither(x) ==
    StartsWith(x, PyarmorRuntime) \/ Splitext(x) \in {DotSo, DotPyd}

\* The test of line 384.
IsRuntimeFile(x) ==
    StartsWith(x, PyarmorRuntime) /\ Splitext(x) \in {DotSo, DotPyd}

\* The for loop of lines 382-389: the first file of the listing that passes.
FindRuntimeFile(listing) ==
    IF \A i \in 1..Len(listing) : ~IsRuntimeFile(listing[i]) THEN None
    ELSE Some(listing[CHOOSE i \in 1..Len(listing) :
                          /\ IsRuntimeFile(listing[i])
                          /\ \A j \in 1..(i - 1) : ~IsRuntimeFile(listing[j])])

\* dylib.mac_set_relative_dylib_deps(rtbinary, rtbinname) (line 394): the
\* load commands at the head of the library are rewritten.
mac_set_relative_dylib_deps(files, rtbinary) ==
    [files EXCEPT ![rtbinary] = <<64>> \o Tail(files[rtbinary])]

\* lines 375-380.
RepackPyz ==
    /\ pc = "pyz"
    /\ \E r \in {RepackPyzAll(pyz_tocs, disk)} :
          /\ disk' = r.files
          /\ IF r.err = "" THEN pc' = StepAfter("pyz") /\ err' = err ELSE Fail(r.err)
    /\ started' = started \cup {"pyz"}
    /\ UNCHANGED <<scanVars, extractVars, executable, exe0, pkgfile, copied, envVars, pyz_tocs,
                   one_file_mode, rtentry, built, offset>>

\* lines 382-402: the runtime library is looked for, its dependencies are
\* made relative on macOS, and it becomes the extra entry of a one-file
\* bundle or is copied next to the executable.
BundleRuntime ==
    /\ pc = "runtime"
    /\ \E found \in {FindRuntimeFile(rtfiles)} :
          IF IsNone(found)
              THEN /\ Fail("RuntimeError")
                   /\ UNCHANGED <<disk, rtentry, copied>>
          ELSE /\ disk' = IF platform = "darwin"
                              THEN mac_set_relative_dylib_deps(disk, Join(RTPATH, Val(found)))
                          ELSE disk
               /\ rtentry' = IF one_file_mode THEN Some(RtEntry(Val(found))) ELSE None
               /\ copied' = (copied \/ ~one_file_mode)
               /\ pc' = StepAfter("runtime")
               /\ err' = err
    /\ started' = started \cup {"runtime"}
    /\ UNCHANGED <<scanVars, extractVars, executable, exe0, pkgfile, envVars, pyz_tocs, one_file_mode,
                   built, offset>>

-----------------------------------------------------------------------------
(* repack_executable (repack.py:282-327).                                   *)

\* The code signature at the end of a signed host ('SG').
SIGNATURE == <<83, 71>>

\* osxutils.remove_signature_from_binary (line 290): the signature goes.
remove_signature_from_binary(exe) ==
    IF EndsWith(exe, SIGNATURE) THEN SubSeq(exe, 1, Len(exe) - Len(SIGNATURE)) ELSE exe

\* osxutils.fix_exe_for_code_signing (line 316): the header's size field (the
\* last byte of the bootloader stub) is set to the size of the file.
fix_exe_for_code_signing(exe) == [exe EXCEPT ![3] = Len(exe) % 256]

\* osxutils.sign_binary (line 320).
sign_binary(exe) == exe \o SIGNATURE

\* winutils.set_exe_checksum (line 326): the header's checksum field.
set_exe_checksum(exe) == [exe EXCEPT ![3] = (SumBytes(exe) - exe[3]) % 256]

\* shutil.copyfileobj(infh, outf) with outf at pos (line 307): the bytes of
\* data overwrite what is at pos and extend the file when they run past its
\* end.
copyfileobj(outf, pos, data) ==
    Slice(outf, 0, pos) \o data \o Slice(outf, pos + Len(data), Len(outf))

truncate_nothing(outf, pos) == outf

\* outf.truncate() with the file position at pos (line 309).
truncate(outf, pos) == Slice(outf, 0, pos)

\* lines 302-309, from the offset of line 301: a negative offset makes the
\* seek raise before anything is written.
patch_from(exe, pkg, offset_) ==
    IF offset_ < 0 THEN [err |-> "OSError", file |-> exe, offset |-> offset_]
    ELSE [err    |-> "",
          file   |-> truncate(copyfileobj(exe, offset_, pkg), offset_ + Len(pkg)),
          offset |-> offset_]

\* lines 297-309, from the cookie of line 300.
patch_with(exe, pkg, info) ==
    IF info.err # "" THEN [err |-> info.err, file |-> exe, offset |-> -1]
    ELSE patch_from(exe, pkg, Len(exe) - info.len)

patch_in_place(exe, pkg) == patch_with(exe, pkg, get_cookie_info(exe))

\* objcopy --update-section pydata=pkgfile (lines 292-295): the section that
\* holds the archive gets the new archive as its contents; objcopy fails, and
\* leaves the file alone, when there is no such section.
update_section_of(exe, pkg, reader, info) ==
    IF info.err # "" THEN [err |-> "CalledProcessError", file |-> exe]
    ELSE [err  |-> "",
          file |-> Slice(exe, 0, reader.start) \o pkg
                       \o Slice(exe, info.pos + COOKIE_LENGTH, Len(exe))]

update_section(exe, pkg) ==
    update_section_of(exe, pkg, CArchiveReader2(exe), get_cookie_info(exe))

\* lines 311-325: what follows the patch on macOS and on Windows, the
\* library having fix_exe_for_code_signing.
finalize(exe, platform_, hooks_) ==
    IF platform_ = "darwin"
        THEN IF "sign_binary" \in hooks_
                 THEN sign_binary(fix_exe_for_code_signing(exe))
             ELSE fix_exe_for_code_signing(exe)
    ELSE IF platform_ = "win" /\ "set_exe_checksum" \in hooks_
        THEN set_exe_checksum(exe)
    ELSE exe

\* lines 286-295: the signature is removed on macOS when the library can do
\* it; then Linux takes the section path and everything else the patch.
BeginExecutable ==
    /\ pc = "executable"
    /\ executable' = IF platform = "darwin" /\ "remove_signature_from_binary" \in hooks
                         THEN remove_signature_from_binary(executable)
                     ELSE executable
    /\ pc' = IF platform = "linux" THEN "objcopy" ELSE "patch"
    /\ started' = started \cup {"executable"}
    /\ UNCHANGED <<scanVars, extractVars, exe0, disk, pkgfile, copied, envVars, pyz_tocs,
                   one_file_mode, rtentry, err, built, offset>>

\* lines 292-295 and 327.
Objcopy ==
    /\ pc = "objcopy"
    /\ \E r \in {update_section(executable, Val(pkgfile))} :
          /\ executable' = r.file
          /\ IF r.err = "" THEN pc' = StepAfter("executable") /\ err' = err
                           ELSE Fail(r.err)
    /\ UNCHANGED <<scanVars, extractVars, exe0, disk, pkgfile, copied, envVars, pyz_tocs,
                   one_file_mode, rtentry, started, built, offset>>

\* lines 297-309.
PatchInPlace ==
    /\ pc = "patch"
    /\ \E r \in {patch_in_place(executable, Val(pkgfile))} :
          /\ executable' = r.file
          /\ offset' = r.offset
          /\ IF r.err = "" THEN pc' = "finalize" /\ err' = err ELSE Fail(r.err)
    /\ UNCHANGED <<scanVars, extractVars, exe0, disk, pkgfile, copied, envVars, pyz_tocs,
                   one_file_mode, rtentry, started, built>>

\* lines 311-327.  fix_exe_for_code_signing is called without a hasattr
\* test (line 315): a library without it raises AttributeError, after the
\* host was patched.
Finalize ==
    /\ pc = "finalize"
    /\ IF platform = "darwin" /\ "fix_exe_for_code_signing" \notin hooks
           THEN Fail("AttributeError") /\ UNCHANGED executable
       ELSE /\ executable' = finalize(executable, platform, hooks)
            /\ pc' = StepAfter("executable")
            /\ err' = err
    /\ UNCHANGED <<scanVars, extractVars, exe0, disk, pkgfile, copied, envVars, pyz_tocs,
                   one_file_mode, rtentry, started, built, offset>>

\* The hosts and the new archives of the patch: archives of at most one
\* item, empty, with a compressed entry, with an inner archive.
PatchItems ==
    {it \in ItemPool : it.typecode \in {"s", "x", "z"}}

PatchArchives == {ConformantArchive(items, PYLIB) : items \in DistinctSeqs(PatchItems, 1)}

\* A host is a bootloader stub and an archive, signed or not; or an archive
\* that lost its first bytes, whose cookie counts more bytes than the file
\* has; or a file with no archive in it.
PatchHosts ==
    {BOOT \o a : a \in PatchArchives}
        \cup {BOOT \o a \o SIGNATURE : a \in PatchArchives}
        \cup {Tail(Tail(a)) : a \in {ConformantArchive(items, PYLIB) :
                                         items \in {<<it>> : it \in {x \in PatchItems :
                                                                        x.typecode = "z"}}}}
        \cup {BOOT \o <<1, 2, 3>>}

\* What PKG-patched holds: an archive, or any other bytes.
PatchPkgs == PatchArchives \cup {<<>>, <<1, 2, 3>>}

Platforms == {"darwin", "linux", "win", "other"}

Hooks ==
    {"remove_signature_from_binary", "fix_exe_for_code_signing", "sign_binary",
     "set_exe_checksum"}

\* repack_executable alone, from every host, every new archive, every
\* platform and every set of hooks the library may have.
PatchInit ==
    /\ ScanIdle
    /\ ExtractIdle
    /\ executable \in PatchHosts
    /\ exe0 = executable
    /\ disk = DiskRuntime
    /\ pkgfile \in {Some(p) : p \in PatchPkgs}
    /\ copied = FALSE
    /\ platform \in Platforms
    /\ hooks \in SUBSET Hooks
    /\ rtfiles = <<>>
    /\ pyz_tocs = <<>>
    /\ one_file_mode = FALSE
    /\ rtentry = None
    /\ pc = "executable"
    /\ err = ""
    /\ started = {}
    /\ built = NotBuilt
    /\ offset = -1

PatchNext == BeginExecutable \/ Objcopy \/ PatchInPlace \/ Finalize

SpecPatch == PatchInit /\ [][PatchNext]_vars

\* An inner archive with a member of a type the source does not know, and
\* entries that only fill the TOC of a one-file bundle.
BadPyzItem ==
    [name |-> <<121>>, typecode |-> "z", cflag |-> 0, data |-> <<110, 0, 5, 117, 9, 8>>]

Filler(i) == [name |-> <<102, 96 + i>>, typecode |-> "b", cflag |-> 0, data |-> <<i>>]

PoolItem(name) == CHOOSE it \in ItemPool : it.name = name

\* The hosts of a whole run: a script and an inner archive; the same, signed;
\* a script and an inner archive with an unknown member; an entry of an
\* unknown type and a compiled module; a one-file bundle; no archive at all.
RepackHosts ==
    {BOOT \o ConformantArchive(<<PoolItem(<<97>>), PoolItem(<<122>>)>>, PYLIB),
     BOOT \o ConformantArchive(<<PoolItem(<<97>>), PoolItem(<<122>>)>>, PYLIB) \o SIGNATURE,
     BOOT \o ConformantArchive(<<PoolItem(<<97>>), BadPyzItem>>, PYLIB),
     BOOT \o ConformantArchive(<<PoolItem(<<113, 49>>), PoolItem(Rep(109, 12))>>, PYLIB),
     BOOT \o ConformantArchive([i \in 1..(ONE_FILE_ENTRIES + 1) |-> Filler(i)], PYLIB),
     BOOT \o <<1, 2, 3>>}

\* What os.listdir(rtpath) gives.
RtListings ==
    {<<>>,
     <<InitPy>>,
     <<InitPy, RuntimeSo>>,
     <<PyarmorRuntime \o DotPyd, InitPy>>,
     <<InitPy, PyarmorRuntime \o DotSo \o <<46, 98>>, <<108>> \o DotSo, PyarmorRuntime>>}

\* The replacement tree without the runtime directory.
TreeGood ==
    (Join(OBFPATH, <<97>> \o DotPy) :> <<10, 11, 12>>)
        @@ (Join(OBFPATH, Rep(109, 12) \o DotPy) :> (BYTECODE_MAGIC \o Zeros(12) \o <<20, 21>>))
        @@ (Join(OBFPATH, <<110>> \o DotPy) :> <<13>>)

TreeBad ==
    (Join(OBFPATH, Rep(109, 12) \o DotPy) :> (<<0, 13, 13, 10>> \o Zeros(12) \o <<20, 21>>))
        @@ TreeGood

\* The tree with the files of the runtime directory.
TreeWith(tree, listing) ==
    WriteAll(tree, [i \in 1..Len(listing) |-> <<Join(RTPATH, listing[i]), <<40, 41>>>>])

\* A whole run of Repacker.repack, from the state Repacker.__init__ leaves
\* (lines 332-361): the inner archives extracted into the build directory.
RepackInit ==
    /\ ScanIdle
    /\ ExtractIdle
    /\ executable \in RepackHosts
    /\ exe0 = executable
    /\ rtfiles \in RtListings
    /\ \E tree \in {TreeGood, TreeBad} :
          disk = extract_carchive(executable, TreeWith(tree, rtfiles)).files
    /\ pyz_tocs = extract_carchive(executable, disk).pyz_tocs
    /\ one_file_mode = extract_carchive(executable, disk).one_file_mode
    /\ pkgfile = None
    /\ copied = FALSE
    /\ platform \in Platforms
    /\ hooks \in SUBSET Hooks
    /\ rtentry = None
    /\ pc = RepackOrder[1]
    /\ err = ""
    /\ started = {}
    /\ built = NotBuilt
    /\ offset = -1

RepackNext ==
    \/ RepackPyz
    \/ BundleRuntime
    \/ RepackCarchive
    \/ BeginExecutable
    \/ Objcopy
    \/ PatchInPlace
    \/ Finalize

SpecRepack == RepackInit /\ [][RepackNext]_vars

\* The names of the members of an inner archive: 'a', 'a.b', '.a', 'a..b',
\* '/a', '.', '...' and 'a/../c'.
ExtractNames ==
    {<<97>>, <<97, 46, 98>>, <<46, 97>>, <<97, 46, 46, 98>>, <<47, 97>>, <<46>>,
     <<46, 46, 46>>, <<97, 47, 46, 46, 47, 99>>}

\* Their members: every type of lines 25-28 and one more, without and with
\* data.
ExtractPool ==
    [name     : ExtractNames,
     typecode : {PYZ_ITEM_MODULE, PYZ_ITEM_PKG, PYZ_ITEM_DATA, PYZ_ITEM_NSPKG, 9},
     data     : {<<>>, <<7, 8>>}]

\* The inner archives: one member, or a written member named 'a' or 'a.b'
\* and one more under another name.
ExtractFirst ==
    {x \in ExtractPool : /\ x.name \in {<<97>>, <<97, 46, 98>>}
                         /\ x.typecode \in {PYZ_ITEM_MODULE, PYZ_ITEM_PKG, PYZ_ITEM_DATA}
                         /\ x.data # <<>>}

ExtractArchives ==
    {<<m>> : m \in ExtractPool}
        \cup {a \in {<<m, n>> : m \in ExtractFirst, n \in ExtractPool} : a[1].name # a[2].name}

\* extract_pyzarchive alone, the build directory being empty (lines 339-340).
ExtractInit ==
    /\ ScanIdle
    /\ EnvIdle
    /\ executable = <<>>
    /\ exe0 = <<>>
    /\ disk = DiskRuntime
    /\ pkgfile = None
    /\ copied = FALSE
    /\ pyz_tocs = <<>>
    /\ one_file_mode = FALSE
    /\ rtentry = None
    /\ pc = "extract"
    /\ err = ""
    /\ started = {}
    /\ built = NotBuilt
    /\ offset = -1
    /\ pyzname = <<122>>
    /\ pyzarch \in ExtractArchives
    /\ member = 0
    /\ written = <<>>

ExtractNext == ExtractOpen \/ ExtractMember \/ ExtractReturn

SpecExtract == ExtractInit /\ [][ExtractNext]_vars

\* The outer rebuild alone, from every original archive of at most
\* MaxEntries items of the pool, every replacement tree, with and without
\* the extra runtime entry.
WriterInit ==
    /\ ScanIdle
    /\ ExtractIdle
    /\ EnvIdle
    /\ \E items \in DistinctSeqs(ItemPool, MaxEntries) :
          executable = BOOT \o ConformantArchive(items, PYLIB)
    /\ exe0 = executable
    /\ disk \in Disks
    /\ pkgfile = None
    /\ copied = FALSE
    /\ pyz_tocs = <<>>
    /\ one_file_mode = FALSE
    /\ rtentry \in {None, Some(RtEntry(RuntimeSo))}
    /\ pc = "carchive"
    /\ err = ""
    /\ started = {}
    /\ built = NotBuilt
    /\ offset = -1

WriterNext == RepackCarchive \/ RepackCarchiveAdd \/ RebuildUnchanged

SpecWriter == WriterInit /\ [][WriterNext]_vars

-----------------------------------------------------------------------------
(* The scan alone, from every stream and pattern within the bounds.        *)

ScanAlphabet == {0, 1}

\* The patterns of the scan: every non-empty pattern up to MaxPatLen, and
\* two that fill a whole chunk.
ScanPatterns ==
    SeqsOf(ScanAlphabet, 1, MaxPatLen)
        \cup {[i \in 1..SEARCH_CHUNK_SIZE |-> 0],
              [i \in 1..SEARCH_CHUNK_SIZE |-> IF i = 1 THEN 1 ELSE 0]}

ScanInit ==
    /\ stream \in SeqsOf(ScanAlphabet, 0, MaxStreamLen)
    /\ magic_pattern \in ScanPatterns
    /\ end_pos = 0
    /\ magic_offset = -1
    /\ scan_pc = "start"
    /\ EnvIdle
    /\ ExtractIdle
    /\ executable = <<>>
    /\ exe0 = <<>>
    /\ disk = DiskRuntime
    /\ pkgfile = None
    /\ copied = FALSE
    /\ pyz_tocs = <<>>
    /\ one_file_mode = FALSE
    /\ rtentry = None
    /\ pc = "idle"
    /\ err = ""
    /\ started = {}
    /\ built = NotBuilt
    /\ offset = -1

ScanNext == ScanOpen \/ ScanIterate \/ ScanReturn

\* The loop is sequential code: a step that can be taken is taken.
SpecScan == ScanInit /\ [][ScanNext]_vars /\ WF_vars(ScanNext)

-----------------------------------------------------------------------------
(* C1 *)

\* The offsets at which pat occurs in s.
Occurrences(s, pat) ==
    {i \in 0..(Len(s) - Len(pat)) : Slice(s, i, i + Len(pat)) = pat}

ScanResultRight ==
    (scan_pc = "done" /\ Len(magic_pattern) <= SEARCH_CHUNK_SIZE) =>
        /\ (magic_offset = -1) <=> (Occurrences(stream, magic_pattern) = {})
        /\ magic_offset # -1 =>
              /\ magic_offset \in Occurrences(stream, magic_pattern)
              /\ \A i \in Occurrences(stream, magic_pattern) : i <= magic_offset

\* C1: for every stream and every non-empty pattern no longer than the scan
\* chunk, the scan ends, and it ends with the highest offset at which the
\* pattern occurs (also when that occurrence straddles a chunk boundary of
\* the backward scan), and with -1 exactly when the pattern occurs nowhere.
C1_ScanFindsHighest == [](ScanResultRight) /\ <>(scan_pc = "done")

\* A found occurrence that no single chunk of the first pass holds: it starts
\* below the first chunk's start and ends inside the first chunk.
C1_StraddleFound ==
    /\ scan_pc = "done"
    /\ Len(stream) > SEARCH_CHUNK_SIZE
    /\ Len(magic_pattern) > 1
    /\ magic_offset # -1
    /\ magic_offset < Len(stream) - SEARCH_CHUNK_SIZE
    /\ magic_offset + Len(magic_pattern) > Len(stream) - SEARCH_CHUNK_SIZE

-----------------------------------------------------------------------------
(* The archive writer, under SpecWriter.                                    *)

\* What a reader of the file fp sees: the TOC, and every entry's stored bytes.
DecodedOf(pkg) ==
    [toc      |-> get_toc(pkg),
     payloads |-> [i \in 1..Len(pkg.toc) |->
                      Slice(pkg.fp, pkg.start + pkg.toc[i][2][1],
                            pkg.start + pkg.toc[i][2][1] + pkg.toc[i][2][2])]]

Decoded(fp) == DecodedOf(CArchiveReader2(fp))

\* The writer of CArchiveWriterLocal got as far as _serialize_toc.
Serialized ==
    /\ built.by \in {"local", "unchanged"}
    /\ built.err \in {"", "UnboundLocalError"}

\* The writer of CArchiveWriterLocal wrote the whole archive.
Completed ==
    /\ built.by \in {"local", "unchanged"}
    /\ built.err = ""

RecordPadded(toc_entry, record) ==
    /\ Unpack32(record, 0) % 16 = 0
    /\ Unpack32(record, 0) = Len(record)
    /\ Len(record) - (TOC_ENTRY_LENGTH + NameLength(toc_entry)) \in 1..16

\* C2: whatever TOC entries _serialize_toc is given, it serializes all of
\* them, every record's entryStructLength is a multiple of 16, and every
\* record is 1 to 16 bytes longer than header + UTF-8 name + NUL (16 bytes
\* longer when that unpadded length is already a multiple of 16).
C2_RecordsPadded ==
    Serialized =>
        /\ built.err = ""
        /\ Len(built.records) = Len(built.toc)
        /\ \A i \in 1..Len(built.toc) : RecordPadded(built.toc[i], built.records[i])

\* C3: rebuilding a conformant archive with no replacement source at all
\* gives an archive that decodes to the same metadata and the same payload
\* bytes, entry by entry.
C3_RoundTrip ==
    built.by = "unchanged" =>
        /\ built.err = ""
        /\ Decoded(built.file) = Decoded(exe0)

RECURSIVE SumStored(_)
SumStored(toc) == IF toc = <<>> THEN 0 ELSE Head(toc)[2] + SumStored(Tail(toc))

RECURSIVE SumStructLen(_)
SumStructLen(records) ==
    IF records = <<>> THEN 0 ELSE Unpack32(Head(records), 0) + SumStructLen(Tail(records))

CookieConsistent(b, c) ==
    /\ c.err = ""
    /\ c.magic = COOKIE_MAGIC_PATTERN
    /\ c.len = c.TOC + c.TOClen + COOKIE_LENGTH
    /\ c.TOC = SumStored(b.toc)
    /\ c.TOClen = SumStructLen(b.records)
    /\ c.TOClen = Len(b.file) - COOKIE_LENGTH - c.TOC

\* C5: in an archive the outer writer has built, the cookie at its end has
\* totalLength = tocOffset + tocLength + cookieSize, tocOffset is the sum of
\* the stored lengths of the entries, and tocLength is the number of TOC
\* bytes, the sum of the records' entryStructLength fields.
C5_CookieConsistent ==
    Completed =>
        CookieConsistent(built, read_cookie(built.file, Len(built.file) - COOKIE_LENGTH))

\* An archive built from a replaced and a compressed entry plus the runtime.
C5_BuiltCompressed ==
    /\ Completed
    /\ built.by = "local"
    /\ Len(built.toc) >= 3
    /\ \E i \in 1..Len(built.toc) : built.toc[i][4] # 0 /\ built.toc[i][2] # built.toc[i][3]
    /\ \E i \in 1..Len(built.entries) :
          ~IsNone(built.entries[i][2]) /\ built.entries[i][4] = "s"

\* C6: whenever a rebuild writes its entries, by the 5.10+ writer or by the
\* entry-by-entry add of an older library, every logical entry of type 's'
\* is recorded in the output TOC with type code 's', replaced or copied.
C6_SourceTypecodeKept ==
    (built.by # "" /\ built.err = "") =>
        /\ Len(built.toc) = Len(built.entries)
        /\ \A i \in 1..Len(built.entries) :
              built.entries[i][4] = PKG_ITEM_PYSOURCE =>
                  built.toc[i][5] = PKG_ITEM_PYSOURCE

\* The legacy copy of a source entry that has no replacement.
C6_LegacyCopiedSource ==
    /\ built.by = "legacy"
    /\ built.err = ""
    /\ \E i \in 1..Len(built.entries) :
          /\ built.entries[i][4] = PKG_ITEM_PYSOURCE
          /\ IsNone(built.entries[i][2])
          /\ built.toc[i][5] = PKG_ITEM_PYSOURCE

\* The stored names and type codes of a TOC the reader decoded.
NamesAndTypes(toc) == [i \in 1..Len(toc) |-> <<toc[i][1], toc[i][2][5]>>]

ExtraLast(rtentry_) ==
    IF IsNone(rtentry_) THEN <<>> ELSE <<(<<Val(rtentry_)[1], Val(rtentry_)[4]>>)>>

\* C10: the re-stitched outer archive lists every entry of the original TOC
\* once, in the original order, under the same stored name and type code
\* (dependency and runtime-option entries too), and the extra binary entry,
\* when there is one, last.
C10_EntriesKept ==
    (built.by = "local" /\ built.err = "") =>
        NamesAndTypes(get_toc(CArchiveReader2(built.file)))
            = NamesAndTypes(get_toc(CArchiveReader2(exe0))) \o ExtraLast(rtentry)

-----------------------------------------------------------------------------
(* The patch of the host, under SpecPatch.                                  *)

\* The file after is the file before up to off, then pkg, and nothing more.
PatchedExactly(before, after, pkg, off) ==
    /\ Len(after) = off + Len(pkg)
    /\ Slice(after, 0, off) = Slice(before, 0, off)
    /\ Slice(after, off, Len(after)) = pkg

PatchedFrom(before, after, pkg, info) ==
    PatchedExactly(before, after, pkg, Len(before) - info.len)

\* C4: every in-place patch that is carried out leaves a file of exactly
\* patchOffset + newArchiveLength bytes, patchOffset being the size of the
\* file minus the totalLength of its cookie: the bytes below patchOffset are
\* those of the file before, the bytes from patchOffset on are the new
\* archive, be it longer or shorter than the old one.
C4_PatchExact ==
    [][(pc = "patch" /\ pc' = "finalize") =>
           PatchedFrom(executable, executable', Val(pkgfile), get_cookie_info(executable))]_vars

\* A patch with an archive shorter than the one it replaces, the host having
\* bytes after its archive that the copy alone would leave in place.
C4_ShorterPatched ==
    /\ pc = "finalize"
    /\ offset > 0
    /\ Len(executable) < Len(exe0)
    /\ Len(executable) = offset + Len(Val(pkgfile))
    /\ Len(Val(pkgfile)) > 0

-----------------------------------------------------------------------------
(* The whole run, under SpecRepack.                                         *)

\* The replacement tree's runtime directory holds no file whose name starts
\* with 'pyarmor_runtime' and ends in '.so' or '.pyd'.
NoRuntimeArtifact(listing) ==
    \A i \in 1..Len(listing) :
        ~(/\ StartsWith(listing[i], PyarmorRuntime)
          /\ (EndsWith(listing[i], DotSo) \/ EndsWith(listing[i], DotPyd)))

\* C7: a run whose runtime directory holds no runtime library never touches
\* the host: the outer rebuild and the patch never start, nothing is copied
\* next to the executable, and once the library has been looked for the run
\* has failed with the RuntimeError of line 389.
C7_NoRuntimeNoPatch ==
    NoRuntimeArtifact(rtfiles) =>
        /\ executable = exe0
        /\ ~copied
        /\ IsNone(pkgfile)
        /\ "carchive" \notin started
        /\ "executable" \notin started
        /\ pc # "done"
        /\ "runtime" \in started => (pc = "failed" /\ err = "RuntimeError")

\* The search fails over a directory that has files, near misses among them,
\* after the inner archives were rebuilt.
C7_RuntimeMissing ==
    /\ pc = "failed"
    /\ err = "RuntimeError"
    /\ Len(rtfiles) > 1
    /\ pyz_tocs # <<>>
    /\ "pyz" \in started

\* The PYZ type codes repack_pyzarchive has a branch for.
KnownPyzTypes == {PYZ_ITEM_MODULE, PYZ_ITEM_PKG, PYZ_ITEM_DATA, PYZ_ITEM_NSPKG}

\* The inner archives of the host with a member of an unknown type.
UnknownInner ==
    {i \in 1..Len(pyz_tocs) :
        \E k \in 1..Len(pyz_tocs[i][2]) : pyz_tocs[i][2][k][2] \notin KnownPyzTypes}

\* The entries of an outer TOC with an unknown type code.
UnknownOuter(toc) == {i \in 1..Len(toc) : toc[i][2][5] \notin KnownTypeCodes}

\* The rebuilt archive has the entries of unknown type of the original under
\* the same name and type code, with the same stored bytes.
CopiedVerbatim(orig, new) ==
    \A i \in UnknownOuter(orig.toc) :
        /\ i <= Len(new.toc)
        /\ new.toc[i][1] = orig.toc[i][1]
        /\ new.toc[i][2][5] = orig.toc[i][2][5]
        /\ new.payloads[i] = orig.payloads[i]

FormatErrors == {"magic not found", "bytecode magic mismatch", "unknown PYZ item type"}

\* C9: a run that ends in a format error leaves the host binary with the
\* bytes it had when the run started, on every platform.
C9_FormatErrorHostIntact ==
    (pc = "failed" /\ err \in FormatErrors) => executable = exe0

\* A format error of the outer rebuild, on macOS, after the runtime library
\* was copied next to the executable.
C9_FormatErrorRaised ==
    /\ pc = "failed"
    /\ err = "bytecode magic mismatch"
    /\ platform = "darwin"
    /\ "remove_signature_from_binary" \in hooks
    /\ copied
    /\ "carchive" \in started

-----------------------------------------------------------------------------
(* C11, C12: extract_pyzarchive.                                            *)

\* The member a write of the loop was made for.
MemberOf(w) == pyzarch[w.member]

\* C11: during extraction the file written for an inner-archive entry of
\* type data holds exactly the bytes extract returns for that name, with
\* nothing prepended, appended or re-encoded.
C11_DataByteForByte ==
    \A i \in 1..Len(written) :
        MemberOf(written[i]).typecode = PYZ_ITEM_DATA =>
            written[i].bytes = MemberOf(written[i]).data

\* Whether the path lies inside the directory.
InsideDir(path, dirname) == StartsWith(path, dirname \o <<Slash>>)

\* C12: whatever the name of an inner-archive entry, the file written for it
\* lies inside the extraction directory <output>/<archive name>_extracted.
C12_WrittenInsideDir ==
    \A i \in 1..Len(written) : InsideDir(written[i].path, ExtractDir(BUILDPATH, pyzname))

-----------------------------------------------------------------------------
(* C13: the optional hooks of repack_executable.                            *)

\* C13: a platform-gated hook of repack_executable that the installed
\* library lacks (signature removal, Mach-O header fix-up, re-signing,
\* checksum) is skipped and the patch completes; the absence of a hook never
\* makes the run fail.
C13_AbsentHookTolerated ==
    (pc = "failed" /\ "executable" \in started) => err # "AttributeError"

=============================================================================
